---- MODULE Spec2Model ----
(***************************************************************************)
(* Model of app.py: the restricted arithmetic evaluator safe_eval, the     *)
(* Streamlit session state, the three button callbacks and the page that   *)
(* offers them.                                                            *)
(*                                                                         *)
(* Numbers.  A Python float is modelled exactly as a decimal-scaled        *)
(* rational n/d * 10^e (kind "fin"), or as one of the IEEE specials        *)
(* +/-inf (kind "inf", sign in n) and NaN (kind "nan"); the complex result *)
(* that float ** float can produce is the kind "cplx".  Binary rounding    *)
(* of float64 is abstracted: arithmetic on "fin" values is exact, overflow *)
(* past the largest double and underflow below the smallest are kept.      *)
(* Signed zero is not distinguished (-0.0 = 0.0 in every test the code     *)
(* makes).                                                                 *)
(***************************************************************************)
EXTENDS Integers, Sequences, FiniteSets, TLC

VARIABLES
    correct_answer,     \* st.session_state.correct_answer : None or a float
    eq_text,            \* st.session_state.eq_text
    feedback,           \* st.session_state.feedback
    eq_input,           \* st.session_state.eq_input (the equation text box)
    user_answer_input,  \* st.session_state.user_answer_input (the answer text box)
    last,               \* the call that ran last, with what it was given and returned
    seen                \* history: the first outcome safe_eval gave for each probed text

vars == <<correct_answer, eq_text, feedback, eq_input, user_answer_input, last, seen>>

session == <<correct_answer, eq_text, feedback, eq_input, user_answer_input>>

(***************************************************************************)
(* Floats                                                                  *)
(***************************************************************************)
Fin(n, d, e) == [k |-> "fin", n |-> n, d |-> d, e |-> e]

Inf(s) == [k |-> "inf", n |-> s, d |-> 1, e |-> 0]

NaN == [k |-> "nan", n |-> 0, d |-> 1, e |-> 0]

ComplexValue == [k |-> "cplx", n |-> 0, d |-> 1, e |-> 0]

Zero == Fin(0, 1, 0)

Abs(i) == IF i < 0 THEN -i ELSE i

Min(i, j) == IF i < j THEN i ELSE j

Max(i, j) == IF i < j THEN j ELSE i

RECURSIVE GCD(_, _)
GCD(a, b) == IF b = 0 THEN a ELSE GCD(b, a % b)

RECURSIVE Pow10(_)
Pow10(i) == IF i <= 0 THEN 1 ELSE 10 * Pow10(i - 1)

\* number of decimal digits of a positive integer
RECURSIVE Digits(_)
Digits(i) == IF i < 10 THEN 1 ELSE 1 + Digits(i \div 10)

\* canonical form: d > 0 coprime to 10 and to n, n not a multiple of 10
RECURSIVE StripNum(_, _, _)
StripNum(n, d, e) ==
    IF n % 10 = 0 THEN StripNum(n \div 10, d, e + 1) ELSE Fin(n, d, e)

\* the factors 2 and 5 of d moved into the exponent (n and d coprime, d > 0)
RECURSIVE StripDen(_, _, _)
StripDen(n, d, e) ==
    IF d % 2 = 0 THEN StripDen(n * 5, d \div 2, e - 1)
    ELSE IF d % 5 = 0 THEN StripDen(n * 2, d \div 5, e - 1)
    ELSE StripNum(n, d, e)

Norm(n, d, e) ==
    LET Reduced(m, c, g) == StripDen(m \div g, c \div g, e)
    IN  IF n = 0 THEN Zero
        ELSE IF d < 0 THEN Reduced(-n, -d, GCD(Abs(n), -d))
        ELSE Reduced(n, d, GCD(Abs(n), d))

IsFin(x) == x.k = "fin"

IsZero(x) == x.k = "fin" /\ x.n = 0

Sign(x) == IF x.n > 0 THEN 1 ELSE IF x.n < 0 THEN -1 ELSE 0

Neg(x) == IF x.k \in {"fin", "inf"} THEN [x EXCEPT !.n = -x.n] ELSE x

\* exact arithmetic on finite values
FAdd(a, b) ==
    IF a.n = 0 THEN b
    ELSE IF b.n = 0 THEN a
    ELSE LET e == Min(a.e, b.e)
         IN  Norm(a.n * b.d * Pow10(a.e - e) + b.n * a.d * Pow10(b.e - e), a.d * b.d, e)

FSub(a, b) == FAdd(a, Neg(b))

FMul(a, b) == Norm(a.n * b.n, a.d * b.d, a.e + b.e)

FDiv(a, b) == Norm(a.n * b.d, a.d * b.n, a.e - b.e)

\* bounds on the decimal order of magnitude of a positive finite value:
\* 10^MagLo(x) < x < 10^MagHi(x)
MagLo(x) == x.e + Digits(Abs(x.n)) - Digits(x.d) - 1

MagHi(x) == x.e + Digits(Abs(x.n)) - Digits(x.d) + 1

\* a < b for positive finite a, b
PosLess(a, b) ==
    IF MagHi(a) <= MagLo(b) THEN TRUE
    ELSE IF MagHi(b) <= MagLo(a) THEN FALSE
    ELSE LET e == Min(a.e, b.e)
         IN  a.n * b.d * Pow10(a.e - e) < b.n * a.d * Pow10(b.e - e)

\* a < b for finite a, b
FLess(a, b) ==
    IF Sign(a) # Sign(b) THEN Sign(a) < Sign(b)
    ELSE IF Sign(a) = 0 THEN FALSE
    ELSE IF Sign(a) > 0 THEN PosLess(a, b)
    ELSE PosLess(Neg(b), Neg(a))

\* float comparison a < b; every comparison with NaN is False
Less(a, b) ==
    IF a.k = "nan" \/ b.k = "nan" THEN FALSE
    ELSE IF a.k = "inf" /\ b.k = "inf" THEN a.n < b.n
    ELSE IF a.k = "inf" THEN a.n < 0
    ELSE IF b.k = "inf" THEN b.n > 0
    ELSE FLess(a, b)

Leq(a, b) == a.k # "nan" /\ b.k # "nan" /\ ~Less(b, a)

\* abs() of a float
fabs(x) == IF x.k \in {"fin", "inf"} /\ x.n < 0 THEN Neg(x) ELSE x

\* floor of a finite value, as an integer-valued finite value
Floor(x) ==
    IF x.d = 1 /\ x.e >= 0 THEN x
    ELSE IF MagHi(fabs(x)) <= 0 THEN (IF x.n < 0 THEN Fin(-1, 1, 0) ELSE Zero)
    ELSE IF x.e >= 0 THEN Norm((x.n * Pow10(x.e)) \div x.d, 1, 0)
    ELSE Norm(x.n \div (x.d * Pow10(-x.e)), 1, 0)

\* x is a whole number
IsIntegral(x) == x.k = "fin" /\ x.d = 1 /\ x.e >= 0

(***************************************************************************)
(* float64 range.  The largest double is 1.7976931348623157e308 and the    *)
(* smallest positive one 4.9e-324; the model keeps two significant digits  *)
(* of each.                                                                *)
(***************************************************************************)
DBL_MAX == Fin(18, 1, 307)

DBL_TRUE_MIN == Fin(5, 1, -324)

Overflows(x) == IsFin(x) /\ FLess(DBL_MAX, fabs(x))

Underflows(x) == IsFin(x) /\ ~IsZero(x) /\ FLess(fabs(x), DBL_TRUE_MIN)

\* the float an exact result becomes: overflow gives an infinity, underflow zero
RoundF(x) ==
    IF Overflows(x) THEN Inf(Sign(x)) ELSE IF Underflows(x) THEN Zero ELSE x

\* what applying an operator gives: a value, or a raised exception
Ret(v) == [exc |-> "none", val |-> v]

Exc(name) == [exc |-> name, val |-> Zero]

(***************************************************************************)
(* The operator module's functions on two floats (operands are never NaN:  *)
(* no literal is NaN and every binary result is checked finite).           *)
(***************************************************************************)
op_add(a, b) ==
    IF IsFin(a) /\ IsFin(b) THEN Ret(RoundF(FAdd(a, b)))
    ELSE IF IsFin(a) THEN Ret(b)
    ELSE IF IsFin(b) THEN Ret(a)
    ELSE Ret(IF a.n = b.n THEN a ELSE NaN)

op_sub(a, b) == op_add(a, Neg(b))

op_mul(a, b) ==
    IF IsFin(a) /\ IsFin(b) THEN Ret(RoundF(FMul(a, b)))
    ELSE IF IsZero(a) \/ IsZero(b) THEN Ret(NaN)
    ELSE Ret(Inf(Sign(a) * Sign(b)))

\* a / b for b # 0
Quotient(a, b) ==
    IF IsFin(a) /\ IsFin(b) THEN RoundF(FDiv(a, b))
    ELSE IF IsFin(b) THEN Inf(Sign(a) * Sign(b))
    ELSE IF IsFin(a) THEN Zero
    ELSE NaN

\* a division that leaves x / 0 to IEEE arithmetic
op_truediv_unguarded(a, b) ==
    IF IsZero(b) THEN Ret(IF IsZero(a) THEN NaN ELSE Inf(Sign(a))) ELSE Ret(Quotient(a, b))

op_truediv(a, b) ==
    IF IsZero(b) THEN Exc("ZeroDivisionError") ELSE Ret(Quotient(a, b))

\* truncation toward zero, and C's fmod (the remainder takes the sign of a)
Trunc(x) == IF x.n < 0 THEN Neg(Floor(Neg(x))) ELSE Floor(x)

fmod(a, b) == FSub(a, FMul(b, Trunc(FDiv(a, b))))

\* a remainder that keeps the sign of the dividend, as C's % does
PyMod_truncating(a, b) == fmod(a, b)

\* float % float: fmod, moved into the divisor's sign
PyMod(a, b) ==
    LET SignOfDivisor(m) == IF ~IsZero(m) /\ Sign(m) # Sign(b) THEN FAdd(m, b) ELSE m
    IN  SignOfDivisor(fmod(a, b))

op_mod(a, b) ==
    IF IsZero(b) THEN Exc("ZeroDivisionError")
    ELSE IF IsFin(a) /\ IsFin(b) THEN Ret(PyMod(a, b))
    ELSE IF IsFin(a) THEN Ret(IF ~IsZero(a) /\ Sign(a) # Sign(b) THEN b ELSE a)
    ELSE Ret(NaN)

\* float // float: (a - a % b) / b
op_floordiv(a, b) ==
    IF IsZero(b) THEN Exc("ZeroDivisionError")
    ELSE IF IsFin(a) /\ IsFin(b) THEN Ret(RoundF(FDiv(FSub(a, PyMod(a, b)), b)))
    ELSE IF IsFin(a)
    THEN Ret(IF ~IsZero(a) /\ Sign(a) # Sign(b) THEN Fin(-1, 1, 0) ELSE Zero)
    ELSE Ret(NaN)

\* x ** i for a whole i >= 0, exactly
RECURSIVE IntPow(_, _)
IntPow(x, i) == IF i = 0 THEN Fin(1, 1, 0) ELSE FMul(x, IntPow(x, i - 1))

\* the integer a whole finite value stands for
IntOf(x) == x.n * Pow10(x.e)

\* integer square root, rounded down: the root lies in lo .. hi
RECURSIVE ISqrtIn(_, _, _)
ISqrtIn(i, lo, hi) ==
    IF lo >= hi THEN lo
    ELSE LET mid == (lo + hi + 1) \div 2
         IN  IF mid * mid <= i THEN ISqrtIn(i, mid, hi) ELSE ISqrtIn(i, lo, mid - 1)

\* the square root of a positive finite value with denominator 1: exact for a
\* perfect square, else rounded down to two decimals
SqrtF(x) ==
    LET odd == x.e % 2 = 1
        m   == IF odd THEN x.n * 10 ELSE x.n
        e   == IF odd THEN x.e - 1 ELSE x.e
    IN  Norm(ISqrtIn(m * 10000, 0, 40000), 1, (e \div 2) - 2)

\* float ** float for finite operands (the guards of _eval admit no others).
\* Non-whole exponents are modelled for +/-0.5 only.
op_pow(a, b) ==
    LET Result(p) == IF Overflows(p) THEN Exc("OverflowError") ELSE Ret(RoundF(p))
        WholePower(i) ==
            IF i >= 0 THEN Result(IntPow(a, i))
            ELSE IF IsZero(a) THEN Exc("ZeroDivisionError")
            ELSE Result(FDiv(Fin(1, 1, 0), IntPow(a, -i)))
    IN
    IF IsIntegral(b) THEN WholePower(IntOf(b))
    ELSE IF IsZero(a) THEN (IF b.n < 0 THEN Exc("ZeroDivisionError") ELSE Ret(Zero))
    ELSE IF a.n < 0 THEN Ret(ComplexValue)
    ELSE IF b.n > 0 THEN Ret(SqrtF(a))
    ELSE Ret(FDiv(Fin(1, 1, 0), SqrtF(a)))

\* math.isfinite: a complex argument is a TypeError
isfinite(x) == x.k = "fin"

\* float(node.value) of a numeric constant: a literal too large for a double is inf
float(v) == RoundF(v)

(***************************************************************************)
(* Syntax trees, as ast.parse builds them.  A node is a record with its    *)
(* class name in t.  A Constant carries the Python type of its value in    *)
(* kind; value is the number it holds (True = 1, False = 0), Zero for a    *)
(* non-numeric constant.                                                   *)
(***************************************************************************)
Expression(body) == [t |-> "Expression", body |-> body]

Constant(kind, value) == [t |-> "Constant", kind |-> kind, value |-> value]

UnaryOp(op, operand) == [t |-> "UnaryOp", op |-> op, operand |-> operand]

BinOp(left, op, right) == [t |-> "BinOp", op |-> op, left |-> left, right |-> right]

Name(id) == [t |-> "Name", id |-> id]

Call(func, args) == [t |-> "Call", func |-> func, args |-> args]

Compare(left, comparators) == [t |-> "Compare", left |-> left, comparators |-> comparators]

Starred(value) == [t |-> "Starred", value |-> value]

Tuple(elts) == [t |-> "Tuple", elts |-> elts]

\* the outcome of a call: a returned float, or a raised exception of class tag
\* whose message is classified in err
Ok(v) == [tag |-> "ok", val |-> v, err |-> "none"]

Raise(tag, err) == [tag |-> tag, val |-> Zero, err |-> err]

_ALLOWED_BINOPS == {"Add", "Sub", "Mult", "Div", "Mod", "FloorDiv", "Pow"}

_ALLOWED_UNARYOPS == {"UAdd", "USub"}

_MAX_ABS_RESULT == Fin(1, 1, 12)

_MAX_ABS_BASE_FOR_POW == Fin(1, 1, 6)

_MAX_ABS_EXPONENT == Fin(1, 1, 1)

\* _ALLOWED_BINOPS[op_type](left, right)
ApplyBinOp(op, left, right) ==
    CASE op = "Add" -> op_add(left, right)
      [] op = "Sub" -> op_sub(left, right)
      [] op = "Mult" -> op_mul(left, right)
      [] op = "Div" -> op_truediv(left, right)
      [] op = "Mod" -> op_mod(left, right)
      [] op = "FloorDiv" -> op_floordiv(left, right)
      [] op = "Pow" -> op_pow(left, right)

\* _ALLOWED_UNARYOPS[op_type](x)
ApplyUnaryOp(op, x) == IF op = "USub" THEN Neg(x) ELSE x

\* isinstance(node.value, (int, float)): bool is a subclass of int
IsIntOrFloat(kind) == kind \in {"int", "float", "bool"}

\* a check of finiteness alone, without the bound on the magnitude
CheckResult_finite_only(result) ==
    IF result.k = "cplx" THEN Raise("TypeError", "unclassified")
    ELSE IF isfinite(result) THEN Ok(result)
    ELSE Raise("ValueError", "ResultOutOfRange")

\* lines 69-71: the check of a binary result
CheckResult(result) ==
    IF result.k = "cplx" THEN Raise("TypeError", "unclassified")
    ELSE IF isfinite(result) /\ Leq(fabs(result), _MAX_ABS_RESULT) THEN Ok(result)
    ELSE Raise("ValueError", "ResultOutOfRange")

\* guards that reject the boundary values too
PowGuard_inclusive(left, right) ==
    IF Leq(_MAX_ABS_EXPONENT, fabs(right)) THEN "ExponentTooLarge"
    ELSE IF Leq(_MAX_ABS_BASE_FOR_POW, fabs(left)) THEN "BaseTooLarge"
    ELSE "none"

\* guards that look at the base before the exponent
PowGuard_base_first(left, right) ==
    IF Less(_MAX_ABS_BASE_FOR_POW, fabs(left)) THEN "BaseTooLarge"
    ELSE IF Less(_MAX_ABS_EXPONENT, fabs(right)) THEN "ExponentTooLarge"
    ELSE "none"

\* lines 60-64: the guards of the power operator; "none" when it may be applied
PowGuard(left, right) ==
    IF Less(_MAX_ABS_EXPONENT, fabs(right)) THEN "ExponentTooLarge"
    ELSE IF Less(_MAX_ABS_BASE_FOR_POW, fabs(left)) THEN "BaseTooLarge"
    ELSE "none"

\* lines 65-71: the operator applied, ZeroDivisionError caught, the result checked
ApplyAndCheck(op, left, right) ==
    LET Try(r) ==
            IF r.exc = "none" THEN CheckResult(r.val)
            ELSE IF r.exc = "ZeroDivisionError" THEN Raise("ValueError", "DivisionByZero")
            ELSE Raise(r.exc, "unclassified")
    IN  Try(ApplyBinOp(op, left, right))

\* lines 57-71: a binary operator on its two evaluated operands
EvalBinOp(op, left, right) ==
    LET Guarded(guard) ==
            IF guard # "none" THEN Raise("ValueError", guard)
            ELSE ApplyAndCheck(op, left, right)
    IN  IF op \notin _ALLOWED_BINOPS THEN Raise("ValueError", "UnsupportedBinaryOp")
        ELSE Guarded(IF op = "Pow" THEN PowGuard(left, right) ELSE "none")

\* a dispatch that lets an unknown node through
UnsupportedElement_allowed(node) == Ok(Zero)

\* line 72: the final case of the dispatch
UnsupportedElement(node) == Raise("ValueError", "UnsupportedElement")

\* lines 40-72.  The ast.Num case (lines 47-48) is never taken: a Num is a
\* Constant holding a number, which the Constant case returns first.
RECURSIVE _eval(_)
_eval(node) ==
    CASE node.t = "Expression" -> _eval(node.body)
      [] node.t = "Constant" ->
            IF IsIntOrFloat(node.kind) THEN Ok(float(node.value))
            ELSE Raise("ValueError", "NonNumericConstant")
      [] node.t = "UnaryOp" ->
            IF node.op \in _ALLOWED_UNARYOPS
            THEN LET x == _eval(node.operand)
                 IN  IF x.tag = "ok" THEN Ok(ApplyUnaryOp(node.op, x.val)) ELSE x
            ELSE Raise("ValueError", "UnsupportedUnaryOp")
      [] node.t = "BinOp" ->
            LET left == _eval(node.left)
            IN  IF left.tag # "ok" THEN left
                ELSE LET right == _eval(node.right)
                     IN  IF right.tag # "ok" THEN right
                         ELSE EvalBinOp(node.op, left.val, right.val)
      [] OTHER -> UnsupportedElement(node)

(***************************************************************************)
(* Text.  A str is a sequence of one-character strings over the alphabet   *)
(* below: the characters of the arithmetic grammar, the letters e and j    *)
(* (exponents, imaginary literals, names), operators outside the           *)
(* allow-list (~, <, <<) and blanks.                                       *)
(***************************************************************************)
DigitChars == {"0", "1", "2", "3", "4", "5", "6", "7", "8", "9"}

DigitVal(c) ==
    CASE c = "0" -> 0 [] c = "1" -> 1 [] c = "2" -> 2 [] c = "3" -> 3 [] c = "4" -> 4
      [] c = "5" -> 5 [] c = "6" -> 6 [] c = "7" -> 7 [] c = "8" -> 8 [] c = "9" -> 9

IdentStart == {"e", "j"}

IdentChars == IdentStart \cup DigitChars

Whitespace == {" ", "\t"}

\* the character at position i, "" past the end
CharAt(s, i) == IF i >= 1 /\ i <= Len(s) THEN s[i] ELSE ""

\* str.strip()
RECURSIVE lstrip(_)
lstrip(s) == IF s # <<>> /\ Head(s) \in Whitespace THEN lstrip(Tail(s)) ELSE s

RECURSIVE rstrip(_)
rstrip(s) ==
    IF s # <<>> /\ s[Len(s)] \in Whitespace THEN rstrip(SubSeq(s, 1, Len(s) - 1)) ELSE s

strip(s) == rstrip(lstrip(s))

(***************************************************************************)
(* ast.parse(expr, mode="eval"): Python's tokenizer and expression grammar *)
(* on that alphabet.                                                       *)
(***************************************************************************)
Tok(t, s, kind, value) == [t |-> t, s |-> s, kind |-> kind, value |-> value]

RECURSIVE SkipDigits(_, _)
SkipDigits(s, i) == IF CharAt(s, i) \in DigitChars THEN SkipDigits(s, i + 1) ELSE i

RECURSIVE SkipIdent(_, _)
SkipIdent(s, i) == IF CharAt(s, i) \in IdentChars THEN SkipIdent(s, i + 1) ELSE i

\* the integer a digit string denotes
RECURSIVE IntOfDigits(_)
IntOfDigits(ds) ==
    IF ds = <<>> THEN 0
    ELSE 10 * IntOfDigits(SubSeq(ds, 1, Len(ds) - 1)) + DigitVal(ds[Len(ds)])

\* the number digits * 10^e, trailing zeros moved into the exponent first
RECURSIVE DecimalValue(_, _)
DecimalValue(ds, e) ==
    IF ds # <<>> /\ ds[Len(ds)] = "0" THEN DecimalValue(SubSeq(ds, 1, Len(ds) - 1), e + 1)
    ELSE Norm(IntOfDigits(ds), 1, e)

\* a decimal integer literal may not start with 0 unless it is all zeros
LeadingZeros(ds) == Len(ds) > 1 /\ ds[1] = "0" /\ \E i \in 1..Len(ds) : ds[i] # "0"

\* a number literal starting at i: [ok, tok, next]
ScanNumber(s, i) ==
    LET Suffix(j1, j2, k0, j3) ==
            LET hasDot == CharAt(s, j1) = "."
                hasE   == CharAt(s, j2) = "e"
                intDs  == SubSeq(s, i, j1 - 1)
                fracDs == IF hasDot THEN SubSeq(s, j1 + 1, j2 - 1) ELSE <<>>
                expAbs == IF hasE THEN IntOfDigits(SubSeq(s, k0, j3 - 1)) ELSE 0
                expVal == IF hasE /\ CharAt(s, j2 + 1) = "-" THEN -expAbs ELSE expAbs
                imag   == CharAt(s, j3) = "j"
                j4     == IF imag THEN j3 + 1 ELSE j3
                kind   == IF imag THEN "complex" ELSE IF hasDot \/ hasE THEN "float" ELSE "int"
                bad    == \/ hasE /\ j3 = k0
                          \/ CharAt(s, j4) \in IdentChars
                          \/ kind = "int" /\ LeadingZeros(intDs)
            IN  [ok |-> ~bad,
                 tok |-> Tok("NUMBER", "", kind,
                             IF bad \/ imag THEN Zero
                             ELSE DecimalValue(intDs \o fracDs, expVal - Len(fracDs))),
                 next |-> j4]
        ExponentDigits(j1, j2, k0) ==
            Suffix(j1, j2, k0, IF CharAt(s, j2) = "e" THEN SkipDigits(s, k0) ELSE j2)
        Exponent(j1, j2) ==
            ExponentDigits(j1, j2, IF CharAt(s, j2 + 1) \in {"+", "-"} THEN j2 + 2 ELSE j2 + 1)
        Fraction(j1) ==
            Exponent(j1, IF CharAt(s, j1) = "." THEN SkipDigits(s, j1 + 1) ELSE j1)
    IN  Fraction(SkipDigits(s, i))

\* the two-character operators
DoubleOp(c) == CASE c = "*" -> "**" [] c = "/" -> "//" [] c = "<" -> "<<"

\* the tokens of s from position i on, after acc: [ok, toks]
RECURSIVE Lex(_, _, _)
Lex(s, i, acc) ==
    LET c == CharAt(s, i)
        d == CharAt(s, i + 1)
    IN  IF i > Len(s) THEN [ok |-> TRUE, toks |-> acc]
        ELSE IF c \in Whitespace
        THEN \* blanks before the first token are an IndentationError
             IF acc = <<>> THEN [ok |-> FALSE, toks |-> <<>>] ELSE Lex(s, i + 1, acc)
        ELSE IF c \in DigitChars \/ (c = "." /\ d \in DigitChars)
        THEN LET Number(n) ==
                     IF n.ok THEN Lex(s, n.next, Append(acc, n.tok))
                     ELSE [ok |-> FALSE, toks |-> <<>>]
             IN  Number(ScanNumber(s, i))
        ELSE IF c \in IdentStart
        THEN LET Ident(j) ==
                     Lex(s, j, Append(acc, Tok("NAME", SubSeq(s, i, j - 1), "", Zero)))
             IN  Ident(SkipIdent(s, i))
        ELSE IF c = "." /\ d = "." /\ CharAt(s, i + 2) = "."
        THEN Lex(s, i + 3, Append(acc, Tok("OP", "...", "", Zero)))
        ELSE IF c \in {"*", "/", "<"} /\ d = c
        THEN Lex(s, i + 2, Append(acc, Tok("OP", DoubleOp(c), "", Zero)))
        ELSE IF c \in {"+", "-", "*", "/", "%", "(", ")", "~", "<", "."}
        THEN Lex(s, i + 1, Append(acc, Tok("OP", c, "", Zero)))
        ELSE [ok |-> FALSE, toks |-> <<>>]

IsOp(toks, i, syms) == i <= Len(toks) /\ toks[i].t = "OP" /\ toks[i].s \in syms

BinOpName(sym) ==
    CASE sym = "+" -> "Add" [] sym = "-" -> "Sub" [] sym = "*" -> "Mult"
      [] sym = "/" -> "Div" [] sym = "%" -> "Mod" [] sym = "//" -> "FloorDiv"
      [] sym = "**" -> "Pow" [] sym = "<<" -> "LShift"

UnaryOpName(sym) ==
    CASE sym = "+" -> "UAdd" [] sym = "-" -> "USub" [] sym = "~" -> "Invert"

Attribute(value, attr) == [t |-> "Attribute", value |-> value, attr |-> attr]

\* a parse: [ok, node, i], i the position of the next token
Parsed(node, i) == [ok |-> TRUE, node |-> node, i |-> i]

NoParse == [ok |-> FALSE, node |-> Tuple(<<>>), i |-> 0]

RECURSIVE ParseComparison(_, _)
RECURSIVE ParseComparators(_, _, _, _)
RECURSIVE ParseBinary(_, _, _)
RECURSIVE ParseBinaryRest(_, _, _, _)
RECURSIVE ParseFactor(_, _)
RECURSIVE ParsePower(_, _)
RECURSIVE ParseTrailers(_, _, _)
RECURSIVE ParseAtom(_, _)

\* the operators of each left-associative level, loosest first:
\* shift_expr, arith_expr (sum), term
LevelOps(level) ==
    CASE level = 1 -> {"<<"} [] level = 2 -> {"+", "-"} [] level = 3 -> {"*", "/", "//", "%"}

\* comparison: shift_expr ('<' shift_expr)*
ParseComparison(toks, i) ==
    LET Shift(l) ==
            IF l.ok /\ IsOp(toks, l.i, {"<"}) THEN ParseComparators(toks, l.node, <<>>, l.i)
            ELSE l
    IN  Shift(ParseBinary(toks, i, 1))

ParseComparators(toks, left, acc, i) ==
    LET Comparator(r) ==
            IF r.ok THEN ParseComparators(toks, left, Append(acc, r.node), r.i)
            ELSE NoParse
    IN  IF IsOp(toks, i, {"<"}) THEN Comparator(ParseBinary(toks, i + 1, 1))
        ELSE Parsed(Compare(left, acc), i)

\* a left-associative level: operand (op operand)*.  ParseBinary at level 4
\* is the operand of a term, a factor.
ParseBinary(toks, i, level) ==
    LET Operand(l) == IF l.ok THEN ParseBinaryRest(toks, l.node, l.i, level) ELSE NoParse
    IN  IF level = 4 THEN ParseFactor(toks, i)
        ELSE Operand(ParseBinary(toks, i, level + 1))

ParseBinaryRest(toks, left, i, level) ==
    LET Operand(r) ==
            IF r.ok
            THEN ParseBinaryRest(toks, BinOp(left, BinOpName(toks[i].s), r.node), r.i, level)
            ELSE NoParse
    IN  IF IsOp(toks, i, LevelOps(level)) THEN Operand(ParseBinary(toks, i + 1, level + 1))
        ELSE Parsed(left, i)

\* factor: ('+' | '-' | '~') factor | power
ParseFactor(toks, i) ==
    LET Operand(f) ==
            IF f.ok THEN Parsed(UnaryOp(UnaryOpName(toks[i].s), f.node), f.i) ELSE NoParse
    IN  IF IsOp(toks, i, {"+", "-", "~"}) THEN Operand(ParseFactor(toks, i + 1))
        ELSE ParsePower(toks, i)

\* power: primary ['**' factor]
ParsePower(toks, i) ==
    LET Exponent(base, f) ==
            IF f.ok THEN Parsed(BinOp(base, "Pow", f.node), f.i) ELSE NoParse
        Primary(p) ==
            IF p.ok /\ IsOp(toks, p.i, {"**"})
            THEN Exponent(p.node, ParseFactor(toks, p.i + 1))
            ELSE p
        Atom(a) == IF a.ok THEN Primary(ParseTrailers(toks, a.node, a.i)) ELSE NoParse
    IN  Atom(ParseAtom(toks, i))

\* primary: atom ('(' [['*' | '**'] expression] ')' | '.' NAME)*
ParseTrailers(toks, node, i) ==
    LET Argument(star, a) ==
            IF a.ok /\ IsOp(toks, a.i, {")"})
            THEN ParseTrailers(toks, Call(node, <<IF star THEN Starred(a.node) ELSE a.node>>),
                               a.i + 1)
            ELSE NoParse
        Arguments(star) == Argument(star, ParseComparison(toks, IF star THEN i + 2 ELSE i + 1))
    IN
    IF IsOp(toks, i, {"("}) /\ IsOp(toks, i + 1, {")"})
    THEN ParseTrailers(toks, Call(node, <<>>), i + 2)
    ELSE IF IsOp(toks, i, {"("}) THEN Arguments(IsOp(toks, i + 1, {"*", "**"}))
    ELSE IF IsOp(toks, i, {"."})
    THEN IF i + 1 <= Len(toks) /\ toks[i + 1].t = "NAME"
         THEN ParseTrailers(toks, Attribute(node, toks[i + 1].s), i + 2)
         ELSE NoParse
    ELSE Parsed(node, i)

\* atom: NUMBER | NAME | '...' | '(' expression ')' | '(' ')'
ParseAtom(toks, i) ==
    LET Group(a) ==
            IF a.ok /\ IsOp(toks, a.i, {")"}) THEN Parsed(a.node, a.i + 1) ELSE NoParse
    IN
    IF i > Len(toks) THEN NoParse
    ELSE IF toks[i].t = "NUMBER" THEN Parsed(Constant(toks[i].kind, toks[i].value), i + 1)
    ELSE IF toks[i].t = "NAME" THEN Parsed(Name(toks[i].s), i + 1)
    ELSE IF IsOp(toks, i, {"..."}) THEN Parsed(Constant("ellipsis", Zero), i + 1)
    ELSE IF IsOp(toks, i, {"("}) /\ IsOp(toks, i + 1, {")"}) THEN Parsed(Tuple(<<>>), i + 2)
    ELSE IF IsOp(toks, i, {"("}) THEN Group(ParseComparison(toks, i + 1))
    ELSE NoParse

\* ast.parse(expr, mode="eval"): [ok, node]; ~ok is a SyntaxError
ast_parse(expr) ==
    LET Whole(toks, p) ==
            IF p.ok /\ p.i = Len(toks) + 1
            THEN [ok |-> TRUE, node |-> Expression(p.node)]
            ELSE [ok |-> FALSE, node |-> Expression(Tuple(<<>>))]
        Tokens(l) == Whole(l.toks, IF l.ok THEN ParseComparison(l.toks, 1) ELSE NoParse)
    IN  Tokens(Lex(expr, 1, <<>>))

\* lines 40-74: the parsed expression evaluated, a SyntaxError reported
EvalParsed(parsed) ==
    IF ~parsed.ok THEN Raise("ValueError", "SyntaxError") ELSE _eval(parsed.node)

\* an evaluator that parses whatever it is given
safe_eval_unchecked(expr) == EvalParsed(ast_parse(expr))

\* lines 32-74
safe_eval(expr) ==
    IF expr = <<>> \/ strip(expr) = <<>> THEN Raise("ValueError", "EmptyExpression")
    ELSE EvalParsed(ast_parse(expr))

(***************************************************************************)
(* Inputs of the evaluator: expression texts and syntax trees.             *)
(***************************************************************************)
\* operands of the generated binary expressions range over -MaxOperand..MaxOperand
MaxOperand == 3

\* str(i) for i >= 0
DigitChar(i) == CHOOSE c \in DigitChars : DigitVal(c) = i

RECURSIVE DigitsOf(_)
DigitsOf(i) == IF i < 10 THEN <<DigitChar(i)>> ELSE DigitsOf(i \div 10) \o <<DigitChar(i % 10)>>

\* the spelling of each binary operator of the alphabet
OpTexts ==
    {<<"+">>, <<"-">>, <<"*">>, <<"/">>, <<"%">>, <<"/", "/">>, <<"*", "*">>, <<"<", "<">>}

\* "a op b" for small a, b
OperandTexts ==
    {DigitsOf(a) \o o \o DigitsOf(b) : a \in 0..MaxOperand, b \in 0..MaxOperand, o \in OpTexts}

\* the examples of the specification, and one text per shape of failure
NamedTexts ==
    {
      <<"2", "+", "2">>,
      <<"3", "*", "(", "4", "-", "1", ")", "/", "2">>,
      <<"5", "*", "*", "2">>,
      <<"1", "0", "/", "/", "3">>,
      <<"7", " ", "%", " ", "3">>,
      <<"1", "/", "0">>,
      <<"5", "/", "/", "0">>,
      <<"5", "%", "0">>,
      <<"2", "*", "*", "2", "0">>,
      <<"1", "e", "7", "*", "*", "2">>,
      <<>>,
      <<" ", " ", " ">>,
      <<" ", "\t">>,
      <<"2", "+">>,
      <<"(", "2", "+", "3">>,
      <<"(", "1", "e", "1", "2", "*", "1", "0", ")", "/", "1", "0", "0">>,
      <<"(", "1", "/", "0", ")", "*", "*", "2", "0">>,
      <<"1", "e", "7", "*", "*", "2", "0">>,
      <<"1", "e", "1", "3">>,
      <<"1", "e", "9", "9", "9">>,
      <<"-", "1", "e", "1", "3">>,
      <<"(", "-", "8", ")", "*", "*", "0", ".", "5">>,
      <<"0", "*", "*", "-", "1">>,
      <<"1", "e", "6", "*", "*", "2">>,
      <<"1", "e", "-", "4", "0", "*", "*", "-", "1", "0">>,
      <<"1", "j">>,
      <<".", ".", ".">>,
      <<"e">>,
      <<"~", "1">>,
      <<"1", "<", "2">>,
      <<"e", "(", "1", ")">>,
      <<"(", "1", "/", "0", ")", "+", "e">>,
      <<"(", "1", "/", "0", ")", "<", "<", "2">>,
      <<"1", "<", "<", "2">>,
      <<" ", "1", ".", "5">>,
      <<"0", "0", "7">>,
      <<"1", ".", "5", " ">>,
      <<"(", "-", "2", ")", "*", "*", "2">>,
      <<"-", "2", "*", "*", "2">>,
      <<"2", "*", "*", "-", "1">>,
      <<"e", ".", "e">>,
      <<"(", ")">>,
      <<"-", "7", "%", "3">>,
      <<"7", "%", "-", "3">>,
      <<"-", "7", "/", "/", "2">>,
      <<"+", "2">>,
      <<"-", "-", "1">>,
      <<"4", "*", "*", "0", ".", "5">>,
      <<"1", "e", "3", "0", "8", "*", "1", "0">>,
      <<"2", "*", "*", "3", "*", "*", "2">>
    }

EvalTexts == OperandTexts \cup NamedTexts

Num(n, e) == Constant("float", Fin(n, 1, e))

IntLit(i) ==
    IF i < 0 THEN UnaryOp("USub", Constant("int", Norm(-i, 1, 0)))
    ELSE Constant("int", Norm(i, 1, 0))

Signed(S) == S \cup {UnaryOp("USub", x) : x \in S}

\* a op b over whole operands
OperandTrees ==
    {BinOp(IntLit(a), o, IntLit(b)) :
        a \in -MaxOperand..MaxOperand, b \in -MaxOperand..MaxOperand, o \in _ALLOWED_BINOPS}

\* literals: 0, 0.5, 2, 10, 1e6, 1000001, 1e7, 1e12, 1e13, 1e-40, 1e999
Literals ==
    {Num(0, 0), Num(5, -1), Num(2, 0), Num(1, 1), Num(1, 6), Num(1000001, 0), Num(1, 7),
     Num(1, 12), Num(1, 13), Num(1, -40), Num(1, 999)}

\* constants that are not numbers: 'a', True, None, 1j, b'a', ...
NonNumericKinds == {"str", "bool", "NoneType", "complex", "bytes", "ellipsis"}

ConstantTrees ==
    Literals \cup {Constant(k, IF k = "bool" THEN Fin(1, 1, 0) ELSE Zero) : k \in NonNumericKinds}

UnaryTrees ==
    {UnaryOp(o, x) : o \in {"UAdd", "USub", "Invert", "Not"}, x \in ConstantTrees}
    \cup {UnaryOp("USub", UnaryOp(o, x)) : o \in {"UAdd", "USub"}, x \in Literals}

\* base ** exponent around the two guards
PowBases == Signed({Num(0, 0), Num(5, -1), Num(2, 0), Num(1, 1), Num(1, 6), Num(1000001, 0),
                    Num(1, 7), Num(1, -40), Num(1, 999)})

PowExponents == Signed({Num(0, 0), Num(5, -1), Num(1, 0), Num(2, 0), Num(1, 1), Num(11, 0),
                        Num(2, 1), Num(1, 999)})

PowTrees == {BinOp(x, "Pow", y) : x \in PowBases, y \in PowExponents}

\* every operator on infinite, zero and small operands
SpecialOperands == Signed({Num(0, 0), Num(2, 0), Num(1, 999)})

SpecialTrees ==
    {BinOp(x, o, y) : x \in SpecialOperands, y \in SpecialOperands, o \in _ALLOWED_BINOPS}

\* products and quotients of large values, one and two operators deep
LargeOperands == {Num(1, 1), Num(1, 2), Num(1, 6), Num(1, 12), Num(1, 13)}

LargeTrees ==
    LET one == {BinOp(x, o, y) : x \in LargeOperands, y \in LargeOperands, o \in {"Mult", "Div"}}
    IN  one \cup {BinOp(x, o, y) : x \in one, y \in {Num(1, 1), Num(1, 2)}, o \in {"Mult", "Div"}}
            \cup {BinOp(x, o, y) : x \in {Num(1, 12), Num(5, 11)}, y \in {Num(1, 12), Num(5, 11)},
                                   o \in {"Add", "Sub"}}

\* an infinite or undefined intermediate result under an operator that would
\* bring it back in range: 2/(1e999*2), (1e999-1e999)**0, 2+(1e999+2)%2, ...
NonFiniteTrees ==
    LET inner == {BinOp(Num(1, 999), o, y) : o \in {"Add", "Sub", "Mult"},
                                            y \in {Num(2, 0), Num(1, 999)}}
    IN  {BinOp(Num(2, 0), o, x) : x \in inner, o \in {"Div", "Add"}}
            \cup {BinOp(x, o, Num(2, 0)) : x \in inner, o \in {"Mod", "Mult"}}
            \cup {BinOp(x, "Pow", Num(0, 0)) : x \in inner}

\* nodes outside the allow-list: e, e(1), e.j, 1 < 2, (), ~1, not 1, 1 << 2, 1 | 2
DisallowedNodes ==
    {Name(<<"e">>), Call(Name(<<"e">>), <<IntLit(1)>>), Attribute(Name(<<"e">>), <<"j">>),
     Compare(IntLit(1), <<IntLit(2)>>), Tuple(<<>>), UnaryOp("Invert", IntLit(1)),
     UnaryOp("Not", IntLit(1)), BinOp(IntLit(1), "LShift", IntLit(2)),
     BinOp(IntLit(1), "BitOr", IntLit(2))}

\* operands beside a disallowed node: 1, 1/0, (-4)**0.5, 'a'
Siblings ==
    {IntLit(1), BinOp(IntLit(1), "Div", IntLit(0)), BinOp(IntLit(-4), "Pow", Num(5, -1)),
     Constant("str", Zero)}

\* trees that hold a disallowed node, up to two operators above it
DisallowedTrees ==
    LET one == DisallowedNodes
                 \cup {UnaryOp(o, x) : o \in _ALLOWED_UNARYOPS, x \in DisallowedNodes}
                 \cup {BinOp(x, o, y) : x \in DisallowedNodes, y \in Siblings, o \in {"Add", "Pow", "LShift"}}
                 \cup {BinOp(y, o, x) : x \in DisallowedNodes, y \in Siblings, o \in {"Add", "Pow", "LShift"}}
    IN  one \cup {BinOp(y, "Mult", x) : x \in one, y \in {IntLit(1), BinOp(IntLit(1), "Div", IntLit(0))}}

EvalTrees ==
    OperandTrees \cup ConstantTrees \cup UnaryTrees \cup PowTrees \cup SpecialTrees
        \cup LargeTrees \cup NonFiniteTrees \cup DisallowedTrees

(***************************************************************************)
(* State                                                                   *)
(***************************************************************************)
\* None, shaped like a float so that the two compare
NoneValue == [k |-> "none", n |-> 0, d |-> 1, e |-> 0]

NoOutcome == [tag |-> "none", val |-> Zero, err |-> "none"]

\* no tree: the text was empty or did not parse
NoNode == Expression([t |-> "NoTree"])

\* a number as a message shows it: an int ("4") or a float ("4.5")
Shown(fmt, value) == [fmt |-> fmt, value |-> value]

NoShown == Shown("none", NoneValue)

\* a feedback message: its kind, and what it shows (an error, a number, a text)
Feedback(kind, err, shown, text) == [kind |-> kind, err |-> err, shown |-> shown, text |-> text]

\* the empty feedback
NoFeedback == Feedback("", "none", NoShown, <<>>)

\* a message with nothing interpolated
Message(kind) == Feedback(kind, "none", NoShown, <<>>)

\* the call that ran last: its name, the text and tree safe_eval was given, what
\* safe_eval returned, the user's parsed answer, and the exception that escaped
Last(call, text, node, out, val, fault) ==
    [call |-> call, text |-> text, node |-> node, out |-> out, val |-> val, fault |-> fault]

\* lines 77-86
defaults ==
    /\ correct_answer = NoneValue
    /\ eq_text = <<>>
    /\ feedback = NoFeedback
    /\ eq_input = <<>>
    /\ user_answer_input = <<>>

\* the tree safe_eval walks for a text (NoNode when it does not get that far)
TreeOf(expr) ==
    LET Tree(parsed) == IF parsed.ok THEN parsed.node ELSE NoNode
    IN  IF strip(expr) = <<>> THEN NoNode ELSE Tree(ast_parse(expr))

\* the first outcome recorded for each text
Remember(t, out) == IF t \in DOMAIN seen THEN seen ELSE seen @@ (t :> out)

(***************************************************************************)
(* The evaluator on its own: one call of safe_eval on a text, or of _eval  *)
(* on the tree of a Python expression, from the initial session.           *)
(***************************************************************************)
\* an evaluator that keeps the last text it was given in the session
safe_eval_call_keeping(expr) ==
    LET Returned(out) ==
            /\ last' = Last("safe_eval", expr, TreeOf(expr), out, NoneValue, "none")
            /\ seen' = Remember(expr, out)
    IN  /\ Returned(safe_eval(expr))
        /\ eq_text' = expr
        /\ UNCHANGED <<correct_answer, feedback, eq_input, user_answer_input>>

\* lines 32-74: a call safe_eval(expr)
safe_eval_call(expr) ==
    LET Returned(out) ==
            /\ last' = Last("safe_eval", expr, TreeOf(expr), out, NoneValue, "none")
            /\ seen' = Remember(expr, out)
    IN  /\ Returned(safe_eval(expr))
        /\ UNCHANGED session

\* lines 40-74: _eval(parsed) on a parsed expression
eval_call(node) ==
    /\ last' = Last("_eval", <<>>, Expression(node), _eval(Expression(node)), NoneValue, "none")
    /\ UNCHANGED <<session, seen>>

InitEval ==
    /\ defaults
    /\ last = Last("init", <<>>, NoNode, NoOutcome, NoneValue, "none")
    /\ seen = <<>>

NextEval ==
    /\ last.call = "init"
    /\ \/ \E expr \in EvalTexts : safe_eval_call(expr)
       \/ \E node \in EvalTrees : eval_call(node)

SpecEval == InitEval /\ [][NextEval]_vars

\* the evaluator has walked a tree and returned or raised
Evaluated ==
    /\ last.call \in {"safe_eval", "_eval"}
    /\ last.node # NoNode
    /\ last.out.tag # "none"

\* the expression under the Expression node
Body == last.node.body

\* the tree is within the arithmetic grammar: numeric literals, unary + and -,
\* the seven binary operators
RECURSIVE InGrammar(_)
InGrammar(node) ==
    CASE node.t = "Expression" -> InGrammar(node.body)
      [] node.t = "Constant" -> node.kind \in {"int", "float"}
      [] node.t = "UnaryOp" -> node.op \in {"UAdd", "USub"} /\ InGrammar(node.operand)
      [] node.t = "BinOp" ->
            /\ node.op \in {"Add", "Sub", "Mult", "Div", "Mod", "FloorDiv", "Pow"}
            /\ InGrammar(node.left)
            /\ InGrammar(node.right)
      [] OTHER -> FALSE

\* the tree holds, at some depth, a node outside the allow-list
RECURSIVE HasDisallowed(_)
HasDisallowed(node) ==
    CASE node.t = "Expression" -> HasDisallowed(node.body)
      [] node.t = "Constant" -> FALSE
      [] node.t = "UnaryOp" -> node.op \notin {"UAdd", "USub"} \/ HasDisallowed(node.operand)
      [] node.t = "BinOp" ->
            \/ node.op \notin {"Add", "Sub", "Mult", "Div", "Mod", "FloorDiv", "Pow"}
            \/ HasDisallowed(node.left)
            \/ HasDisallowed(node.right)
      [] OTHER -> TRUE

\* the operands, at any depth, of the unary and binary operators of a tree
RECURSIVE Operands(_)
Operands(node) ==
    CASE node.t = "Expression" -> {node.body} \cup Operands(node.body)
      [] node.t = "UnaryOp" -> {node.operand} \cup Operands(node.operand)
      [] node.t = "BinOp" ->
            {node.left, node.right} \cup Operands(node.left) \cup Operands(node.right)
      [] OTHER -> {}

UnsupportedErrors == {"UnsupportedUnaryOp", "UnsupportedBinaryOp", "UnsupportedElement"}

\* C1: a successful evaluation of an expression of the grammar returns a finite
\* number v with -1e12 <= v <= 1e12, whatever the shape of the expression.
C1_ResultFiniteInRange ==
    (Evaluated /\ InGrammar(last.node) /\ last.out.tag = "ok")
        => (last.out.val.k = "fin" /\ Leq(fabs(last.out.val), _MAX_ABS_RESULT))

\* C2: every failure of safe_eval on an expression of the grammar is a ValueError,
\* the one kind of error the callers catch.
C2_EveryFailureIsValueError ==
    (Evaluated /\ InGrammar(last.node)) => last.out.tag \in {"ok", "ValueError"}

\* C3 as stated: a tree that holds a node outside the allow-list fails with an
\* unsupported-construct error.
C3_DisallowedGivesUnsupported ==
    (Evaluated /\ HasDisallowed(last.node))
        => (last.out.tag = "ValueError" /\ last.out.err \in UnsupportedErrors)

\* C3 amended: a tree that holds a node outside the allow-list never evaluates to a
\* value; it fails with an unsupported-construct error, or with the error of an
\* operand that holds no such node and is evaluated before the node is reached.
C3_DisallowedNeverReturns ==
    (Evaluated /\ HasDisallowed(last.node))
        => /\ last.out.tag # "ok"
           /\ \/ last.out.tag = "ValueError" /\ last.out.err \in UnsupportedErrors
              \/ \E s \in Operands(last.node) : ~HasDisallowed(s) /\ _eval(s) = last.out

\* (1/0) + e: the division fails before the name is reached
C3_Witness ==
    /\ Evaluated
    /\ HasDisallowed(last.node)
    /\ Body.t = "BinOp"
    /\ Body.right.t = "Name"
    /\ last.out.err = "DivisionByZero"

\* the root is a binary operator whose two operands evaluate to values
BinaryWithValues ==
    /\ Evaluated
    /\ Body.t = "BinOp"
    /\ _eval(Body.left).tag = "ok"
    /\ _eval(Body.right).tag = "ok"

\* C4: a / b, a // b and a % b with b = 0 fail with DivisionByZero.
C4_ZeroDivisorFails ==
    (/\ BinaryWithValues
     /\ Body.op \in {"Div", "FloorDiv", "Mod"}
     /\ _eval(Body.right).val = Zero)
        => last.out = Raise("ValueError", "DivisionByZero")

\* 1e999 / 0 and 1e999 // (-0): an infinite dividend over a zero divisor
C4_Witness ==
    /\ BinaryWithValues
    /\ Body.op \in {"Div", "FloorDiv"}
    /\ _eval(Body.left).val.k = "inf"
    /\ _eval(Body.right).val = Zero
    /\ last.out.err = "DivisionByZero"

\* C5: base ** exponent fails with ExponentTooLarge when |exponent| > 10, with
\* BaseTooLarge when |exponent| <= 10 and |base| > 1e6, and the operator is applied
\* exactly when |exponent| <= 10 and |base| <= 1e6.
C5_PowGuards ==
    (BinaryWithValues /\ Body.op = "Pow")
        => LET base     == _eval(Body.left).val
               exponent == _eval(Body.right).val
               bigExp   == Less(Fin(1, 1, 1), fabs(exponent))
               bigBase  == Less(Fin(1, 1, 6), fabs(base))
           IN  /\ bigExp => last.out = Raise("ValueError", "ExponentTooLarge")
               /\ (~bigExp /\ bigBase) => last.out = Raise("ValueError", "BaseTooLarge")
               /\ (~bigExp /\ ~bigBase) =>
                     /\ last.out = ApplyAndCheck("Pow", base, exponent)
                     /\ last.out.err \notin {"ExponentTooLarge", "BaseTooLarge"}

\* 1e6 ** 10: both boundary values pass the guards and the operator is applied
C5_Witness ==
    /\ BinaryWithValues
    /\ Body.op = "Pow"
    /\ _eval(Body.left).val = Fin(1, 1, 6)
    /\ _eval(Body.right).val = Fin(1, 1, 1)
    /\ last.out.err = "ResultOutOfRange"

\* C6: the empty string and every string of blanks fail with EmptyExpression.
C6_BlankIsEmptyExpression ==
    (last.call = "safe_eval" /\ \A i \in 1..Len(last.text) : last.text[i] \in Whitespace)
        => last.out = Raise("ValueError", "EmptyExpression")

\* a text of a space and a tab
C6_Witness ==
    /\ last.call = "safe_eval"
    /\ last.text = <<" ", "\t">>
    /\ last.out.err = "EmptyExpression"

\* C7: a literal of a non-numeric kind (string, boolean, None, complex, bytes,
\* ellipsis) fails with NonNumericConstant.
C7_NonNumericConstantFails ==
    (Evaluated /\ Body.t = "Constant" /\ Body.kind \in NonNumericKinds)
        => last.out = Raise("ValueError", "NonNumericConstant")

\* reference arithmetic on whole numbers
FloorQuotient(a, b) == IF b > 0 THEN a \div b ELSE (-a) \div (-b)

RECURSIVE IntPower(_, _)
IntPower(a, i) == IF i = 0 THEN 1 ELSE a * IntPower(a, i - 1)

Reference(op, a, b) ==
    CASE op = "Add" -> Norm(a + b, 1, 0)
      [] op = "Sub" -> Norm(a - b, 1, 0)
      [] op = "Mult" -> Norm(a * b, 1, 0)
      [] op = "Div" -> Norm(a, b, 0)
      [] op = "FloorDiv" -> Norm(FloorQuotient(a, b), 1, 0)
      [] op = "Mod" -> Norm(a - b * FloorQuotient(a, b), 1, 0)
      [] op = "Pow" -> IF b >= 0 THEN Norm(IntPower(a, b), 1, 0) ELSE Norm(1, IntPower(a, -b), 0)

\* C8: on whole operands, when no guard fires, a op b is the reference result; unary
\* + returns its operand and unary - its negation; 2+2 = 4, 3*(4-1)/2 = 4.5,
\* 5**2 = 25, 10//3 = 3, 7 % 3 = 1.
C8_ReferenceArithmetic ==
    /\ \A a, b \in -MaxOperand..MaxOperand : \A o \in _ALLOWED_BINOPS :
          (/\ Evaluated
           /\ last.node = Expression(BinOp(IntLit(a), o, IntLit(b)))
           /\ last.out.tag = "ok")
              => last.out.val = Reference(o, a, b)
    /\ \A a, b \in 0..MaxOperand : \A o \in OpTexts \ {<<"<", "<">>} :
          (/\ last.call = "safe_eval"
           /\ last.text = DigitsOf(a) \o o \o DigitsOf(b)
           /\ last.out.tag = "ok")
              => last.out.val = Reference(BinOpName(IF Len(o) = 1 THEN o[1] ELSE DoubleOp(o[1])), a, b)
    /\ \A x \in Literals :
          /\ (Evaluated /\ Body = UnaryOp("UAdd", x)) => last.out = Ok(float(x.value))
          /\ (Evaluated /\ Body = UnaryOp("USub", x)) => last.out = Ok(Neg(float(x.value)))
    /\ (last.call = "safe_eval" /\ last.text = <<"2", "+", "2">>) => last.out = Ok(Fin(4, 1, 0))
    /\ (last.call = "safe_eval" /\ last.text = <<"3", "*", "(", "4", "-", "1", ")", "/", "2">>)
          => last.out = Ok(Fin(45, 1, -1))
    /\ (last.call = "safe_eval" /\ last.text = <<"5", "*", "*", "2">>) => last.out = Ok(Fin(25, 1, 0))
    /\ (last.call = "safe_eval" /\ last.text = <<"1", "0", "/", "/", "3">>) => last.out = Ok(Fin(3, 1, 0))
    /\ (last.call = "safe_eval" /\ last.text = <<"7", " ", "%", " ", "3">>) => last.out = Ok(Fin(1, 1, 0))

\* (-3) % 2 = 1: the remainder takes the sign of the divisor
C8_Witness ==
    /\ Evaluated
    /\ last.node = Expression(BinOp(IntLit(-3), "Mod", IntLit(2)))
    /\ last.out = Ok(Fin(1, 1, 0))

(***************************************************************************)
(* The session: the three callbacks, run in any order from the defaults,   *)
(* the user typing into the two text inputs, and safe_eval called on its   *)
(* own between them.                                                       *)
(***************************************************************************)
\* float(text): blanks stripped, a sign, digits with a point, an exponent
py_float(text) ==
    LET t == strip(text)
        i == IF CharAt(t, 1) \in {"+", "-"} THEN 2 ELSE 1
        Signed_(mag) == Ret(IF CharAt(t, 1) = "-" THEN Neg(mag) ELSE mag)
        Suffix(j1, j2, k0, j3) ==
            LET hasDot == CharAt(t, j1) = "."
                hasE   == CharAt(t, j2) = "e"
                intDs  == SubSeq(t, i, j1 - 1)
                fracDs == IF hasDot THEN SubSeq(t, j1 + 1, j2 - 1) ELSE <<>>
                expAbs == IF hasE THEN IntOfDigits(SubSeq(t, k0, j3 - 1)) ELSE 0
                expVal == IF hasE /\ CharAt(t, j2 + 1) = "-" THEN -expAbs ELSE expAbs
                bad    == \/ intDs \o fracDs = <<>>
                          \/ hasE /\ j3 = k0
                          \/ j3 <= Len(t)
            IN  IF bad THEN Exc("ValueError")
                ELSE Signed_(float(DecimalValue(intDs \o fracDs, expVal - Len(fracDs))))
        ExponentDigits(j1, j2, k0) ==
            Suffix(j1, j2, k0, IF CharAt(t, j2) = "e" THEN SkipDigits(t, k0) ELSE j2)
        Exponent(j1, j2) ==
            ExponentDigits(j1, j2, IF CharAt(t, j2 + 1) \in {"+", "-"} THEN j2 + 2 ELSE j2 + 1)
        Fraction(j1) ==
            Exponent(j1, IF CharAt(t, j1) = "." THEN SkipDigits(t, j1 + 1) ELSE j1)
    IN  Fraction(SkipDigits(t, i))

\* round(x) of a float: the nearest int, ties to the even one
py_round(x) ==
    LET half == Fin(5, 1, -1)
        Nearest(f, rest) ==
            IF Less(rest, half) THEN Ret(f)
            ELSE IF Less(half, rest) \/ IntOf(f) % 2 # 0 THEN Ret(FAdd(f, Fin(1, 1, 0)))
            ELSE Ret(f)
        Above(f) == Nearest(f, FSub(x, f))
    IN  IF x.k = "inf" THEN Exc("OverflowError")
        ELSE IF x.k = "nan" THEN Exc("ValueError")
        ELSE IF IsIntegral(x) THEN Ret(x)
        ELSE Above(Floor(x))

\* math.isclose(a, b, rel_tol=rel_tol, abs_tol=abs_tol), for rel_tol < 0.9.  When one
\* operand is under a tenth of the other, |a - b| lies between 0.9 and 1.1 times the
\* larger one, so only abs_tol can make them close; the difference is then computed
\* only when the larger operand is within a factor 100 of abs_tol.
isclose(a, b, rel_tol, abs_tol) ==
    LET Exact(diff) ==
            \/ Leq(diff, fabs(FMul(rel_tol, b)))
            \/ Leq(diff, fabs(FMul(rel_tol, a)))
            \/ Leq(diff, abs_tol)
        Ordered(small, big) ==
            LET apart == ~IsZero(small) /\ MagHi(small) + 1 <= MagLo(big)
            IN  IF apart /\ MagHi(abs_tol) + 1 <= MagLo(big) THEN FALSE
                ELSE IF apart /\ MagHi(big) + 1 <= MagLo(abs_tol) THEN TRUE
                ELSE Exact(fabs(FSub(b, a)))
        Magnitudes(less) ==
            Ordered(IF less THEN fabs(a) ELSE fabs(b), IF less THEN fabs(b) ELSE fabs(a))
    IN  IF a.k = "nan" \/ b.k = "nan" THEN FALSE
        ELSE IF a = b THEN TRUE
        ELSE IF a.k = "inf" \/ b.k = "inf" THEN FALSE
        ELSE Magnitudes(Less(fabs(a), fabs(b)))

\* lines 127-137: the feedback of the comparison, or the exception round() raises
CompareAnswer(correct, user_val) ==
    LET tight == Fin(1, 1, -12)
        loose == Fin(1, 1, -9)
        Verdict(fb) == [fault |-> "none", feedback |-> fb]
        Rounded(r) ==
            IF r.exc # "none" THEN [fault |-> r.exc, feedback |-> NoFeedback]
            ELSE IF isclose(correct, r.val, tight, tight)
            THEN IF isclose(user_val, r.val, loose, loose)
                 THEN Verdict(Message("Correct"))
                 ELSE Verdict(Feedback("Incorrect", "none", Shown("int", r.val), <<>>))
            ELSE IF isclose(user_val, correct, loose, loose)
                 THEN Verdict(Message("CorrectWithinTolerance"))
                 ELSE Verdict(Feedback("Incorrect", "none", Shown("float", correct), <<>>))
    IN  Rounded(py_round(correct))

\* the operators random.choice draws from (line 141)
ProblemOps == {"+", "-", "*", "/"}

\* the operands random.randint(1, 12) draws from (lines 144-150)
ProblemOperands == 1..12

\* a generator whose dividend is not a multiple of the divisor
generate_easy_problem_inexact(op, x, y) ==
    IF op = "/" THEN DigitsOf(x + y) \o <<"/">> \o DigitsOf(x)
    ELSE DigitsOf(x) \o <<op>> \o DigitsOf(y)

\* lines 139-152, for the three random draws
generate_easy_problem(op, x, y) ==
    IF op = "/" THEN DigitsOf(x * y) \o <<"/">> \o DigitsOf(x)
    ELSE DigitsOf(x) \o <<op>> \o DigitsOf(y)

\* what the user types into the equation box
EquationTexts ==
    {<<>>,
     <<"2", "+", "2">>,
     <<" ", "9", "/", "2">>,
     <<"1", "e", "9", "9", "9">>,
     <<"1", "/", "0">>,
     <<"(", "-", "8", ")", "*", "*", "0", ".", "5">>}

\* what the user types into the answer box
AnswerTexts ==
    {<<>>,
     <<"4">>,
     <<"3", ".", "9">>,
     <<"9", "/", "2">>,
     <<" ", "4">>,
     <<"e">>,
     <<"(", "-", "8", ")", "*", "*", "0", ".", "5">>}

\* the texts safe_eval is called on between the callbacks
ProbeTexts == {<<"2", "+", "2">>}

\* the largest operand the session draws for a random problem
MaxDraw == 2

\* the problems the session draws
DrawnProblems ==
    {generate_easy_problem(op, x, y) : op \in ProblemOps, x \in 1..MaxDraw, y \in 1..MaxDraw}

\* every problem generate_easy_problem can return
EasyProblems ==
    {generate_easy_problem(op, x, y) : op \in ProblemOps, x \in ProblemOperands,
                                       y \in ProblemOperands}

\* safe_eval, tabulated over the texts the session passes to it
Evaluation ==
    [expr \in {strip(text) : text \in EquationTexts} \cup AnswerTexts \cup EasyProblems
        |-> safe_eval(expr)]

\* a Set equation that forgets the result of a rejected expression but keeps
\* the text locked before
on_set_equation_keeping_text ==
    LET expr == strip(eq_input)
        Returned(out) ==
            /\ last' = Last("on_set_equation", expr, NoNode, out, NoneValue, "none")
            /\ correct_answer' = IF out.tag = "ok" THEN out.val ELSE NoneValue
            /\ eq_text' = IF out.tag = "ok" THEN expr ELSE eq_text
            /\ feedback' = Message(IF out.tag = "ok" THEN "Accepted" ELSE "InvalidEquation")
            /\ UNCHANGED <<eq_input, user_answer_input, seen>>
    IN  expr # <<>> /\ Returned(Evaluation[expr])

\* lines 89-105
on_set_equation ==
    LET expr == strip(eq_input)
        Returned(out) ==
            /\ last' = Last("on_set_equation", expr, NoNode, out, NoneValue,
                            IF out.tag \in {"ok", "ValueError"} THEN "none" ELSE out.tag)
            /\ UNCHANGED <<eq_input, seen>>
            /\ IF out.tag = "ValueError"
               THEN /\ correct_answer' = NoneValue
                    /\ eq_text' = <<>>
                    /\ feedback' = Feedback("InvalidEquation", out.err, NoShown, <<>>)
                    /\ UNCHANGED user_answer_input
               ELSE IF out.tag = "ok"
               THEN /\ correct_answer' = out.val
                    /\ eq_text' = expr
                    /\ user_answer_input' = <<>>
                    /\ feedback' = Message("Accepted")
               ELSE \* the exception escapes after line 91
                    /\ feedback' = NoFeedback
                    /\ UNCHANGED <<correct_answer, eq_text, user_answer_input>>
    IN  IF expr = <<>>
        THEN /\ feedback' = Message("EnterEquation")
             /\ last' = Last("on_set_equation", expr, NoNode, NoOutcome, NoneValue, "none")
             /\ UNCHANGED <<correct_answer, eq_text, eq_input, user_answer_input, seen>>
        ELSE Returned(Evaluation[expr])

\* a Check Answer that uses the typed answer up
on_check_answer_consuming ==
    /\ feedback' = Message("TypeAnswer")
    /\ last' = Last("on_check_answer", user_answer_input, NoNode, NoOutcome, NoneValue, "none")
    /\ user_answer_input' = <<>>
    /\ UNCHANGED <<correct_answer, eq_text, eq_input, seen>>

\* lines 107-137
on_check_answer ==
    LET user_ans == user_answer_input
        correct  == correct_answer
        Done(fb, out, user_val, fault) ==
            /\ feedback' = fb
            /\ last' = Last("on_check_answer", user_ans, NoNode, out, user_val, fault)
        Verdict(out, user_val, verdict) ==
            Done(IF verdict.fault = "none" THEN verdict.feedback ELSE feedback,
                 out, user_val, verdict.fault)
        \* lines 123-137
        Answered(out, user_val) ==
            IF correct = NoneValue THEN Done(Message("NoEquation"), out, user_val, "none")
            ELSE Verdict(out, user_val, CompareAnswer(correct, user_val))
        \* lines 114-121: float(user_ans) after safe_eval's ValueError
        Fallback(out, plain) ==
            IF plain.exc # "none" THEN Done(Message("CouldNotParse"), out, NoneValue, "none")
            ELSE Answered(out, plain.val)
        Returned(out) ==
            IF out.tag = "ok" THEN Answered(out, out.val)
            ELSE IF out.tag = "ValueError" THEN Fallback(out, py_float(user_ans))
            ELSE Done(feedback, out, NoneValue, out.tag)
    IN  /\ UNCHANGED <<correct_answer, eq_text, eq_input, user_answer_input, seen>>
        /\ IF strip(user_ans) = <<>>
           THEN Done(Message("TypeAnswer"), NoOutcome, NoneValue, "none")
           ELSE Returned(Evaluation[user_ans])

\* lines 154-169
on_random_problem(op, x, y) ==
    LET expr == generate_easy_problem(op, x, y)
        Returned(out) ==
            /\ last' = Last("on_random_problem", expr, NoNode, out, NoneValue,
                            IF out.tag \in {"ok", "ValueError"} THEN "none" ELSE out.tag)
            /\ IF out.tag = "ValueError"
               THEN /\ correct_answer' = NoneValue
                    /\ eq_text' = <<>>
                    /\ feedback' = Feedback("GeneratedInvalid", out.err, NoShown, <<>>)
                    /\ UNCHANGED user_answer_input
               ELSE IF out.tag = "ok"
               THEN /\ correct_answer' = out.val
                    /\ eq_text' = expr
                    /\ user_answer_input' = <<>>
                    /\ feedback' = Feedback("RandomSet", "none", NoShown, expr)
               ELSE UNCHANGED <<correct_answer, eq_text, user_answer_input, feedback>>
    IN  /\ op \in ProblemOps /\ x \in ProblemOperands /\ y \in ProblemOperands
        /\ eq_input' = expr
        /\ UNCHANGED seen
        /\ Returned(Evaluation[expr])

\* an equation box whose text is shown as the locked equation at once
EditEquation_relocking(text) ==
    /\ eq_input' = text
    /\ eq_text' = text
    /\ UNCHANGED <<correct_answer, feedback, user_answer_input, last, seen>>

\* line 175: the user edits the equation box
EditEquation(text) ==
    /\ eq_input' = text
    /\ UNCHANGED <<correct_answer, eq_text, feedback, user_answer_input, last, seen>>

\* line 188: the user edits the answer box
EditAnswer(text) ==
    /\ user_answer_input' = text
    /\ UNCHANGED <<correct_answer, eq_text, feedback, eq_input, last, seen>>

Init ==
    /\ defaults
    /\ last = Last("init", <<>>, NoNode, NoOutcome, NoneValue, "none")
    /\ seen = <<>>

Next ==
    \/ \E text \in EquationTexts : EditEquation(text)
    \/ \E text \in AnswerTexts : EditAnswer(text)
    \/ on_set_equation
    \/ on_check_answer
    \/ \E op \in ProblemOps : \E x, y \in 1..MaxDraw : on_random_problem(op, x, y)

Spec == Init /\ [][Next]_vars

\* the session with safe_eval called on its own between the callbacks
NextProbe ==
    \/ Next
    \/ \E expr \in ProbeTexts : safe_eval_call(expr)

SpecProbe == Init /\ [][NextProbe]_vars

Within(a, b, tol) ==
    LET diff    == fabs(FSub(a, b))
        largest == IF Less(fabs(a), fabs(b)) THEN fabs(b) ELSE fabs(a)
        scaled  == FMul(tol, largest)
    IN  Leq(diff, IF Less(scaled, tol) THEN tol ELSE scaled)

\* the comparison as specified, for a finite locked result and a finite answer
ComparisonAsSpecified(correct, user_val) ==
    LET nearest  == py_round(correct).val
        intLike  == Within(correct, nearest, Fin(1, 1, -12))
        target   == IF intLike THEN nearest ELSE correct
        close    == Within(user_val, target, Fin(1, 1, -9))
    IN  /\ close <=> feedback.kind \in {"Correct", "CorrectWithinTolerance"}
        /\ ~close =>
              feedback = Feedback("Incorrect", "none",
                                  Shown(IF intLike THEN "int" ELSE "float", target), <<>>)

\* on_check_answer has parsed the answer and found an equation locked
Compared ==
    /\ last.call = "on_check_answer"
    /\ last.val # NoneValue
    /\ correct_answer # NoneValue

\* C10: when on_check_answer compares a parsed answer with the locked result, the
\* feedback is Correct exactly when the answer is within 1e-9 of the target (the
\* rounded result when the result is within 1e-12 of it, the result otherwise), and
\* Incorrect showing the target otherwise.
C10_Comparison ==
    Compared => (last.fault = "none" /\ ComparisonAsSpecified(correct_answer, last.val))

\* on_check_answer ran last, on a typed answer that is not blank
Answered == last.call = "on_check_answer" /\ strip(last.text) # <<>>

\* the two stages of parsing an answer: [evaluated, plain]
Stages(text) == [evaluated |-> safe_eval(text), plain |-> py_float(text)]

\* the fallback as specified, for the outcomes st of the two stages
FallbackAsSpecified(st) ==
    /\ feedback.kind = "CouldNotParse" <=> (st.evaluated.tag # "ok" /\ st.plain.exc # "none")
    /\ st.evaluated.tag = "ok" => last.val = st.evaluated.val
    /\ (st.evaluated.tag # "ok" /\ st.plain.exc = "none") => last.val = st.plain.val

\* C11: on_check_answer on a non-blank answer reports CouldNotParse exactly when both
\* safe_eval and the plain numeric parse fail, and otherwise compares the value of the
\* stage that succeeded: safe_eval's, or the plain parse's after safe_eval failed.
C11_AnswerFallback == Answered => FallbackAsSpecified(Stages(last.text))

\* the binary nodes of a tree whose operator is applied when the tree is
\* evaluated: both operands have values and no guard has stopped the operator
RECURSIVE Applied(_)
Applied(node) ==
    CASE node.t = "Expression" -> Applied(node.body)
      [] node.t = "UnaryOp" ->
            IF node.op \in {"UAdd", "USub"} THEN Applied(node.operand) ELSE {}
      [] node.t = "BinOp" ->
            Applied(node.left)
            \cup (IF _eval(node.left).tag = "ok" THEN Applied(node.right) ELSE {})
            \cup (IF /\ _eval(node.left).tag = "ok"
                     /\ _eval(node.right).tag = "ok"
                     /\ node.op \in {"Add", "Sub", "Mult", "Div", "Mod", "FloorDiv", "Pow"}
                     /\ node.op = "Pow" =>
                           /\ Leq(fabs(_eval(node.right).val), Fin(1, 1, 1))
                           /\ Leq(fabs(_eval(node.left).val), Fin(1, 1, 6))
                  THEN {node} ELSE {})
      [] OTHER -> {}

\* what the operator of a binary node yields on the values of its operands
Yield(s) == ApplyBinOp(s.op, _eval(s.left).val, _eval(s.right).val)

\* the operator yields a number that is infinite, not a number, or above 1e12 in
\* absolute value
OutOfRange(r) ==
    /\ r.exc = "none"
    /\ \/ r.val.k \in {"inf", "nan"}
       \/ r.val.k = "fin" /\ Less(Fin(1, 1, 12), fabs(r.val))

\* C13: when the operator of any binary node of the tree, at any depth, yields a
\* number that is not finite or is above 1e12 in absolute value, the whole
\* evaluation fails with ResultOutOfRange, whatever the enclosing operators would
\* make of that number.
C13_EveryBinaryResultChecked ==
    Evaluated =>
        \A s \in Applied(last.node) :
            OutOfRange(Yield(s)) => last.out = Raise("ValueError", "ResultOutOfRange")

\* (1e12*10)/100: the product is 1e13, the quotient would be 1e11
C13_Witness ==
    /\ last.call = "safe_eval"
    /\ last.text = <<"(", "1", "e", "1", "2", "*", "1", "0", ")", "/", "1", "0", "0">>
    /\ Body.left \in Applied(last.node)
    /\ Yield(Body.left) = Ret(Fin(1, 1, 13))
    /\ last.out = Raise("ValueError", "ResultOutOfRange")

\* the operator divides by zero: a zero divisor, or zero to a negative power
DividesByZero(op, left, right) ==
    \/ op \in {"Div", "FloorDiv", "Mod"} /\ IsZero(right)
    \/ op = "Pow" /\ IsZero(left) /\ Sign(right) < 0

\* the outcome that the order of C14 gives a binary node, given the outcomes l
\* and r of its operands; when none of the seven cases applies the node returns a
\* value or raises an exception that is not a ValueError
FirstInOrder(s, l, r) ==
    IF l.tag # "ok" THEN last.out = l
    ELSE IF r.tag # "ok" THEN last.out = r
    ELSE IF s.op \notin {"Add", "Sub", "Mult", "Div", "Mod", "FloorDiv", "Pow"}
    THEN last.out = Raise("ValueError", "UnsupportedBinaryOp")
    ELSE IF s.op = "Pow" /\ Less(Fin(1, 1, 1), fabs(r.val))
    THEN last.out = Raise("ValueError", "ExponentTooLarge")
    ELSE IF s.op = "Pow" /\ Less(Fin(1, 1, 6), fabs(l.val))
    THEN last.out = Raise("ValueError", "BaseTooLarge")
    ELSE IF DividesByZero(s.op, l.val, r.val)
    THEN last.out = Raise("ValueError", "DivisionByZero")
    ELSE IF OutOfRange(Yield(s))
    THEN last.out = Raise("ValueError", "ResultOutOfRange")
    ELSE last.out.tag # "ValueError"

\* C14: a binary node fails with the first error met in the order left operand,
\* right operand, unsupported operator, ExponentTooLarge, BaseTooLarge,
\* DivisionByZero, ResultOutOfRange; (1/0)**20 fails with DivisionByZero and
\* 1e7**20 with ExponentTooLarge.
C14_FirstErrorInOrder ==
    /\ (Evaluated /\ Body.t = "BinOp")
          => FirstInOrder(Body, _eval(Body.left), _eval(Body.right))
    /\ (last.call = "safe_eval"
          /\ last.text = <<"(", "1", "/", "0", ")", "*", "*", "2", "0">>)
          => last.out = Raise("ValueError", "DivisionByZero")
    /\ (last.call = "safe_eval" /\ last.text = <<"1", "e", "7", "*", "*", "2", "0">>)
          => last.out = Raise("ValueError", "ExponentTooLarge")

\* 1e7**20: both guards would fire, and the exponent's is the one reported
C14_Witness ==
    /\ last.call = "safe_eval"
    /\ last.text = <<"1", "e", "7", "*", "*", "2", "0">>
    /\ Body.t = "BinOp"
    /\ Less(Fin(1, 1, 6), fabs(_eval(Body.left).val))
    /\ Less(Fin(1, 1, 1), fabs(_eval(Body.right).val))
    /\ last.out = Raise("ValueError", "ExponentTooLarge")

\* the Random easy math problem button with every draw of the generator, and
\* the user typing an answer between the presses
NextRandom ==
    \/ \E text \in {<<"4">>} : EditAnswer(text)
    \/ \E op \in ProblemOps : \E x, y \in ProblemOperands : on_random_problem(op, x, y)

SpecRandom == Init /\ [][NextRandom]_vars

\* C15: every problem of the generator evaluates to a whole number, the chosen
\* quotient for a division, and on_random_problem locks it: correct_answer holds the
\* result, eq_text and eq_input the problem, the answer box is cleared, and the
\* feedback is never the one of the invalid branch.
C15_GeneratedProblemsLock ==
    /\ [](last.call = "on_random_problem" =>
            /\ last.out.tag = "ok"
            /\ last.out.val.k = "fin" /\ IsIntegral(last.out.val)
            /\ \A x, y \in ProblemOperands :
                  last.text = DigitsOf(x * y) \o <<"/">> \o DigitsOf(x)
                      => last.out.val = Norm(y, 1, 0)
            /\ correct_answer # NoneValue /\ correct_answer = last.out.val
            /\ eq_text = last.text
            /\ feedback = Feedback("RandomSet", "none", NoShown, last.text))
    /\ [][(last'.call = "on_random_problem" /\ last' # last) =>
            (eq_input' = last'.text /\ user_answer_input' = <<>>)]_vars

\* 144/12 is locked with the result 12
C15_Witness ==
    /\ last.call = "on_random_problem"
    /\ last.text = <<"1", "4", "4", "/", "1", "2">>
    /\ correct_answer = Fin(12, 1, 0)
    /\ eq_text = last.text
    /\ user_answer_input = <<>>
    /\ seen = <<>>

\* the locked equation: the expression text and its result
lock == <<correct_answer, eq_text>>

\* a step of on_set_equation or on_random_problem that evaluates an expression.
\* Every callback records itself in last; when it records what last already
\* holds, the same callback ran on the same text just before, only edits of
\* the two boxes lie between the two runs, and the second run assigns the lock
\* what the first one did.
Evaluating ==
    /\ last' # last
    /\ last'.call \in {"on_set_equation", "on_random_problem"}
    /\ last'.text # <<>>

\* the step locks a new equation
Locking == Evaluating /\ last'.out.tag = "ok"

\* the step's expression fails with a ValueError
Rejecting == Evaluating /\ last'.out.tag = "ValueError"

\* C12 as stated: a locked equation stays as it is through every step that does not
\* lock a new one.
C12_LockHeldUntilReplaced ==
    [][(correct_answer # NoneValue /\ ~Locking) => UNCHANGED lock]_vars

\* C12 amended: a locked equation stays as it is through every step but two: a
\* step that locks a new equation replaces it, and a step of on_set_equation or
\* on_random_problem whose expression fails with a ValueError clears it.
C12_LockHeldUntilReplacedOrCleared ==
    [][/\ Rejecting => (correct_answer' = NoneValue /\ eq_text' = <<>>)
       /\ (correct_answer # NoneValue /\ ~Locking /\ ~Rejecting) => UNCHANGED lock]_vars

\* on_set_equation on a blanked equation box has left the lock in place
C12_Witness ==
    /\ last.call = "on_set_equation"
    /\ last.text = <<>>
    /\ feedback.kind = "EnterEquation"
    /\ correct_answer # NoneValue
    /\ eq_text # <<>>

\* C16: in every state of the session correct_answer is None exactly when eq_text
\* is empty, and a correct_answer that is not None is what safe_eval returns for
\* eq_text.
C16_LockConsistent ==
    /\ correct_answer = NoneValue <=> eq_text = <<>>
    /\ correct_answer # NoneValue => safe_eval(eq_text) = Ok(correct_answer)

\* " 9/2" typed and locked: eq_text is the stripped text, correct_answer 4.5
C16_Witness ==
    /\ eq_input = <<" ", "9", "/", "2">>
    /\ eq_text = <<"9", "/", "2">>
    /\ correct_answer = Fin(45, 1, -1)
    /\ last.call = "on_check_answer"

\* C17: a step of on_check_answer, on any of its paths, leaves correct_answer,
\* eq_text, eq_input and user_answer_input as they were.
C17_CheckAnswerFrame ==
    [][(on_check_answer \/ (last' # last /\ last'.call = "on_check_answer"))
          => UNCHANGED <<correct_answer, eq_text, eq_input, user_answer_input>>]_vars

\* an answer found incorrect is still in its box, and the equation still locked
C17_Witness ==
    /\ last.call = "on_check_answer"
    /\ feedback.kind = "Incorrect"
    /\ user_answer_input = last.text
    /\ user_answer_input # <<>>
    /\ correct_answer # NoneValue
    /\ eq_text # <<>>

(***************************************************************************)
(* The page: each run of the script renders the widgets the session state  *)
(* calls for, and the user acts on a widget of the last render.  A button  *)
(* runs its callback before the next render.                               *)
(***************************************************************************)
\* a page that offers the answer widgets whatever the session holds
AnswerWidgetsRendered_always == TRUE

\* lines 181-190: the else branch renders the answer box, Check Answer and Show
\* Correct Answer
AnswerWidgetsRendered == correct_answer # NoneValue

\* lines 192-199: the body of the Show Correct Answer button
ShowCorrectAnswer ==
    LET correct == correct_answer
        tight   == Fin(1, 1, -12)
        Done(fb, fault) ==
            /\ feedback' = fb
            /\ last' = Last("ShowCorrectAnswer", <<>>, NoNode, NoOutcome, NoneValue, fault)
        Rounded(r) ==
            IF r.exc # "none" THEN Done(feedback, r.exc)
            ELSE IF isclose(correct, r.val, tight, tight)
            THEN Done(Feedback("TheCorrectAnswer", "none", Shown("int", r.val), <<>>), "none")
            ELSE Done(Feedback("TheCorrectAnswer", "none", Shown("float", correct), <<>>), "none")
    IN  /\ UNCHANGED <<correct_answer, eq_text, eq_input, user_answer_input, seen>>
        /\ IF correct = NoneValue THEN Done(Message("NoCorrectAnswer"), "none")
           ELSE Rounded(py_round(correct))

\* line 177: the Set equation button
ClickSetEquation == on_set_equation

\* line 179: the Random easy math problem button
ClickRandomProblem == \E op \in ProblemOps : \E x, y \in 1..MaxDraw : on_random_problem(op, x, y)

\* line 188: the answer box
TypeAnswer == AnswerWidgetsRendered /\ \E text \in AnswerTexts : EditAnswer(text)

\* line 190: the Check Answer button
ClickCheckAnswer == AnswerWidgetsRendered /\ on_check_answer

\* line 192: the Show Correct Answer button
ClickShowCorrectAnswer == AnswerWidgetsRendered /\ ShowCorrectAnswer

NextUI ==
    \/ \E text \in EquationTexts : EditEquation(text)
    \/ ClickSetEquation
    \/ ClickRandomProblem
    \/ TypeAnswer
    \/ ClickCheckAnswer
    \/ ClickShowCorrectAnswer

SpecUI == Init /\ [][NextUI]_vars

\* C18: on the page on_check_answer only runs with an equation locked, and the
\* feedback "No valid equation is set." is never produced.
C18_CheckAnswerOnlyWhenLocked ==
    /\ last.call = "on_check_answer" => correct_answer # NoneValue
    /\ feedback.kind # "NoEquation"

\* Check Answer has run on the page and found the answer correct
C18_Witness ==
    /\ last.call = "on_check_answer"
    /\ correct_answer # NoneValue
    /\ feedback.kind = "Correct"

====
